---- MODULE Spec2Model ----
(***************************************************************************)
(* Model of src/index.js (cookie-consent): the consent object, the         *)
(* listener registry, the localStorage item and the five exported          *)
(* operations, with callbacks that may call the operations re-entrantly.   *)
(*                                                                         *)
(* JavaScript is single-threaded and runs to completion, so the program    *)
(* position is a call stack.  A "drain" frame is grantConsent inside       *)
(* listeners[t].forEach (line 75), a "cb" frame is a running callback.     *)
(* A callback is arbitrary caller code: while it is on top of the stack it *)
(* may call any exported operation, return, or throw.                      *)
(***************************************************************************)
EXTENDS Integers, Sequences, FiniteSets, TLC

(* ---- bounds ---- *)
\* number of callbacks handed to waitForConsent during one page load
MaxCb == 2
\* deepest call stack (frames of grantConsent's forEach and of callbacks)
MaxDepth == 4
\* setItem calls that throw during one page load
MaxWriteFailures == 1

(* ---- program constants ---- *)
defaultCookieType == "default"

\* Cookie types the callers use.  "__proto__" is an ordinary caller-supplied
\* string, but on the plain objects `consent` and `listeners` it names the
\* inherited accessor of Object.prototype, not a data property.
CookieTypes == {"default", "ads", "__proto__"}
\* an omitted argument
Omitted == "undefined"
Args == CookieTypes \cup {Omitted}
\* property values found in a stored object: 0, 1 and one invalid encoding
Revoked == 0
Granted == 1
Corrupt == 2
CbIds == 1..MaxCb

(* ---- JavaScript values and property access ---- *)
\* maps are functions whose domain is the set of own property names
EmptyMap == [k \in {} |-> 0]
MapSet(m, k, v) == [x \in (DOMAIN m) \cup {k} |-> IF x = k THEN v ELSE m[x]]
MapDel(m, k) == [x \in (DOMAIN m) \ {k} |-> m[x]]

\* a JavaScript value: type is "object" ({}), "array", "null", "number",
\* "string"; own holds the own string-keyed properties, elems an array's items
JsValue(type, own, elems) == [type |-> type, own |-> own, elems |-> elems]
EmptyObject == JsValue("object", EmptyMap, <<>>)

\* typeof: null and arrays are 'object'
TypeOf(v) == IF v.type \in {"object", "array", "null"} THEN "object" ELSE v.type

\* names every object inherits as something truthy that is not 0, 1 or an array
Inherited == {"__proto__"}

\* obj[k] is an own data property
HasOwn(obj, k) == k \in DOMAIN obj.own
\* obj[k] is truthy as `listeners[cookieType]` tests it
Truthy(obj, k) == HasOwn(obj, k) \/ k \in Inherited
\* obj[k] = v with v a primitive: the __proto__ setter ignores primitives
\* unless the object has an own property of that name (made by JSON.parse)
\* (mutation: the key is ignored, the default cookie type is written)
SetPropBuggy(obj, k, v) == [obj EXCEPT !.own = MapSet(obj.own, defaultCookieType, v)]
SetProp(obj, k, v) ==
    IF k \in Inherited /\ ~HasOwn(obj, k) THEN obj
    ELSE [obj EXCEPT !.own = MapSet(obj.own, k, v)]
\* delete obj[k]
DeleteProp(obj, k) == [obj EXCEPT !.own = MapDel(obj.own, k)]

(* ---- the stored text and JSON ---- *)
\* what localStorage holds under nameString: kind "absent" (getItem gives
\* null), "empty" (''), "garbage" (not JSON), or JSON text of a "number",
\* "string", "null", "list" (elems) or "object" (pairs: <<key, value>>)
Text(kind, pairs, elems) == [kind |-> kind, pairs |-> pairs, elems |-> elems]
Absent == Text("absent", <<>>, <<>>)

\* the order JSON.stringify writes the keys of the model
KeyOrder == <<"default", "ads", "__proto__">>

\* JSON.stringify: an object gives its own enumerable properties, an array
\* only its items (string-keyed properties are dropped)
Stringify(v) ==
    IF v.type = "array" THEN Text("list", <<>>, v.elems)
    ELSE LET keys == SelectSeq(KeyOrder, LAMBDA k : k \in DOMAIN v.own)
         IN  Text("object", [i \in 1..Len(keys) |-> <<keys[i], v.own[keys[i]]>>], <<>>)

\* JSON.parse of valid JSON text: every key becomes an own data property
\* (also "__proto__"), the last of duplicate keys wins
ParseValue(text) ==
    CASE text.kind = "object" ->
           LET ks == {text.pairs[i][1] : i \in 1..Len(text.pairs)}
               last(k) == CHOOSE i \in 1..Len(text.pairs) :
                             /\ text.pairs[i][1] = k
                             /\ \A j \in 1..Len(text.pairs) : text.pairs[j][1] = k => j <= i
           IN  JsValue("object", [k \in ks |-> text.pairs[last(k)][2]], <<>>)
      [] text.kind = "list" -> JsValue("array", EmptyMap, text.elems)
      [] OTHER -> JsValue(text.kind, EmptyMap, <<>>)

\* JSON.parse throws a SyntaxError
ParseThrows(text) == text.kind = "garbage"
\* `if (storedString)`: null and '' are falsy
Falsy(text) == text.kind \in {"absent", "empty"}


(* ---- module evaluation (lines 16-54) ---- *)
\* the consent object of lines 30-48, for the stored text and the probe's
\* outcome: the object, the text left in the store and whether the store
\* was read or written at all
LoadConsent(text, available) ==
    LET reset == [consent |-> EmptyObject, blob |-> Absent, storeOps |-> TRUE]
    IN  IF ~available THEN [consent |-> EmptyObject, blob |-> text, storeOps |-> FALSE]
        ELSE IF Falsy(text) THEN reset
        ELSE IF ParseThrows(text) THEN reset
        ELSE IF TypeOf(ParseValue(text)) = "object"
             THEN [consent |-> ParseValue(text), blob |-> text, storeOps |-> TRUE]
             ELSE reset

(* ---- alterConsent, hasConsent, offeredConsent as functions of the state ---- *)
\* a default parameter replaces an omitted (undefined) argument
Resolve(arg) == IF arg = Omitted THEN defaultCookieType ELSE arg

\* consent[cookieType] throws a TypeError: consent is null
Throws(c) == c.type = "null"

\* (mutation: the write is not guarded by localStorageAvailable)
alterConsentBuggy(c, text, available, value, cookieType, writeOk) ==
    IF Throws(c)
    THEN [consent |-> c, blob |-> text, threw |-> "type", storeOps |-> FALSE]
    ELSE LET c2 == SetProp(c, cookieType, value)
         IN  IF writeOk
             THEN [consent |-> c2, blob |-> Stringify(c2), threw |-> "no", storeOps |-> TRUE]
             ELSE [consent |-> c2, blob |-> text, threw |-> "write", storeOps |-> TRUE]

\* alterConsent (lines 62-65).  writeOk: localStorage.setItem does not throw.
\* Property access on null throws a TypeError before anything is changed; a
\* throwing setItem leaves the assignment of line 63 in place.
alterConsent(c, text, available, value, cookieType, writeOk) ==
    IF Throws(c)
    THEN [consent |-> c, blob |-> text, threw |-> "type", storeOps |-> FALSE]
    ELSE LET c2 == SetProp(c, cookieType, value)
         IN  IF ~available
             THEN [consent |-> c2, blob |-> text, threw |-> "no", storeOps |-> FALSE]
             ELSE IF writeOk
             THEN [consent |-> c2, blob |-> Stringify(c2), threw |-> "no", storeOps |-> TRUE]
             ELSE [consent |-> c2, blob |-> text, threw |-> "write", storeOps |-> TRUE]

\* the value the switch of lines 98 and 113 sees is the number 0 or 1
ValidEntry(c, cookieType) ==
    HasOwn(c, cookieType) /\ c.own[cookieType] \in {Revoked, Granted}

\* (mutation: case '1' instead of case 1, which no stored number matches)
HasConsentValBuggy(c, cookieType) == FALSE

\* hasConsent (lines 96-103): what it returns
HasConsentVal(c, cookieType) ==
    IF HasOwn(c, cookieType) /\ c.own[cookieType] = Granted THEN TRUE   \* case 1
    ELSE FALSE                                                          \* default and case 0
\* (mutation: case 0 stands before default and falls through into the delete)
HasConsentEffectBuggy(c, cookieType) ==
    IF HasOwn(c, cookieType) /\ c.own[cookieType] = Granted THEN c
    ELSE DeleteProp(c, cookieType)

\* hasConsent: the consent object afterwards (default: delete, line 100)
HasConsentEffect(c, cookieType) ==
    IF HasOwn(c, cookieType) /\ c.own[cookieType] = Granted THEN c
    ELSE IF HasOwn(c, cookieType) /\ c.own[cookieType] = Revoked THEN c
    ELSE DeleteProp(c, cookieType)

\* offeredConsent (lines 112-121): what it returns
OfferedConsentVal(c, cookieType) ==
    IF ValidEntry(c, cookieType) THEN TRUE    \* case 0, case 1
    ELSE FALSE                                \* default
\* (mutation: the default case drops every entry, not only consent[cookieType])
OfferedConsentEffectBuggy(c, cookieType) ==
    IF ValidEntry(c, cookieType) THEN c ELSE [c EXCEPT !.own = EmptyMap]

\* offeredConsent: the consent object afterwards (default: delete, line 118)
OfferedConsentEffect(c, cookieType) ==
    IF ValidEntry(c, cookieType) THEN c ELSE DeleteProp(c, cookieType)

(* ---- state ---- *)
VARIABLES
    localStorageAvailable,  \* line 16
    blob,                   \* localStorage's item nameString
    consent,                \* line 30
    listeners,              \* line 54: own maps a cookie type to its array
    stack,                  \* call stack, innermost frame last
    storeOps,               \* history: the store was used after the probe
    nextId,                 \* history: callbacks handed to waitForConsent so far
    cbReg,                  \* history: what waitForConsent did with each callback: "unused",
                            \*   "immediate" (called it), "failed" (threw), or the cookie
                            \*   type to whose array it was appended
    count,                  \* history: invocations of each callback, 2 = more than one
    writeFailures,          \* history: setItem calls that threw since the module was evaluated
    thrown                  \* history: an exception has left a callback since the module was evaluated

vars == <<localStorageAvailable, blob, consent, listeners, stack, storeOps,
          nextId, cbReg, count, writeFailures, thrown>>

\* stored texts a page load may find
InitBlobs ==
    { Absent,
      Text("empty", <<>>, <<>>),
      Text("garbage", <<>>, <<>>),
      Text("number", <<>>, <<>>),
      Text("string", <<>>, <<>>),
      Text("null", <<>>, <<>>),
      Text("list", <<>>, <<Granted>>),
      Text("object", <<>>, <<>>),
      Text("object", << <<"default", Granted>> >>, <<>>),
      Text("object", << <<"default", Corrupt>>, <<"ads", Corrupt>> >>, <<>>) }

\* the state once the module has been evaluated with `text` in the store
Loaded(text, available) ==
    LET r == LoadConsent(text, available)
    IN  /\ localStorageAvailable' = available
        /\ blob' = r.blob
        /\ consent' = r.consent
        /\ listeners' = EmptyObject
        /\ stack' = <<>>
        /\ storeOps' = r.storeOps
        /\ nextId' = 0
        /\ cbReg' = [i \in CbIds |-> "unused"]
        /\ count' = [i \in CbIds |-> 0]
        /\ writeFailures' = 0
        /\ thrown' = FALSE

Init ==
    \E text \in InitBlobs, available \in BOOLEAN :
        LET r == LoadConsent(text, available)
        IN  /\ localStorageAvailable = available
            /\ blob = r.blob
            /\ consent = r.consent
            /\ listeners = EmptyObject
            /\ stack = <<>>
            /\ storeOps = r.storeOps
            /\ nextId = 0
            /\ cbReg = [i \in CbIds |-> "unused"]
            /\ count = [i \in CbIds |-> 0]
            /\ writeFailures = 0
            /\ thrown = FALSE

(* ---- the call stack ---- *)
Frame(kind, t, id, arr, i, g) ==
    [kind |-> kind, t |-> t, id |-> id, arr |-> arr, i |-> i, g |-> g]
Top == stack[Len(stack)]
Pop(s) == SubSeq(s, 1, Len(s) - 1)
\* an exported operation can be called by the page (empty stack) or by the
\* running callback
CanCall == IF stack = <<>> THEN TRUE ELSE Top.kind = "cb"
\* where an exception raised with stack s can end up: at the page (0) or in
\* a try/catch of a callback below
CatchPoints(s) == {0} \cup {k \in 1..Len(s) : s[k].kind = "cb"}
Inc(n) == IF n >= 2 THEN 2 ELSE n + 1

\* what setItem can do: succeed, or throw (a full or blocked store); the
\* model follows at most MaxWriteFailures throwing writes per page load
WriteOutcomes ==
    IF localStorageAvailable /\ writeFailures < MaxWriteFailures THEN BOOLEAN ELSE {TRUE}

\* an exception of kind e raised with stack s: it unwinds the frames above
\* the place that catches it; a callback among them has failed, as has the
\* callback that threw itself (e = "callback")
Raise(s, e) ==
    /\ \E k \in CatchPoints(s) :
          /\ stack' = SubSeq(s, 1, k)
          /\ thrown' = (thrown \/ e = "callback"
                               \/ \E j \in (k + 1)..Len(s) : s[j].kind = "cb")
    /\ writeFailures' = IF e = "write" THEN writeFailures + 1 ELSE writeFailures

\* consent[t] is the number 1
IsGranted(c, t) == HasOwn(c, t) /\ c.own[t] = Granted

\* a revokeConsent(t) was called while these grantConsent(t) calls were running
Mark(s, t) ==
    [k \in 1..Len(s) |->
        IF s[k].kind = "drain" /\ s[k].t = t THEN [s[k] EXCEPT !.g = FALSE] ELSE s[k]]

(* ---- the exported operations ---- *)
\* grantConsent (lines 72-78) up to the start of forEach
grantConsent(arg) ==
    /\ CanCall
    /\ \E writeOk \in WriteOutcomes :
        LET t == Resolve(arg)
            r == alterConsent(consent, blob, localStorageAvailable, Granted, t, writeOk)
        IN  /\ consent' = r.consent
            /\ blob' = r.blob
            /\ storeOps' = (storeOps \/ r.storeOps)
            /\ IF r.threw # "no"
               THEN Raise(stack, r.threw)
               ELSE IF ~Truthy(listeners, t)
               THEN /\ stack' = stack
                    /\ UNCHANGED <<writeFailures, thrown>>
               ELSE IF ~HasOwn(listeners, t)
               THEN \* Object.prototype has no forEach
                    Raise(stack, "type")
               ELSE /\ Len(stack) + 2 <= MaxDepth
                    /\ stack' = Append(stack, Frame("drain", t, 0, listeners.own[t], 1, TRUE))
                    /\ UNCHANGED <<writeFailures, thrown>>
    /\ UNCHANGED <<localStorageAvailable, listeners, nextId, cbReg, count>>

\* forEach calls the next callback of the array (line 75): it visits the
\* indices below the length the array had when forEach was called
forEachCall ==
    /\ stack # <<>>
    /\ Top.kind = "drain"
    /\ Top.i <= Len(Top.arr)
    /\ LET id == Top.arr[Top.i]
       IN  /\ stack' = Append([stack EXCEPT ![Len(stack)].i = Top.i + 1],
                              Frame("cb", Top.t, id, <<>>, 0, IsGranted(consent, Top.t)))
           /\ count' = [count EXCEPT ![id] = Inc(count[id])]
    /\ UNCHANGED <<localStorageAvailable, blob, consent, listeners, storeOps,
                   nextId, cbReg, writeFailures, thrown>>

\* (mutation: line 76 empties the whole registry)
grantConsentReturnBuggy ==
    /\ stack # <<>>
    /\ Top.kind = "drain"
    /\ Top.i > Len(Top.arr)
    /\ listeners' = EmptyObject
    /\ stack' = Pop(stack)
    /\ UNCHANGED <<localStorageAvailable, blob, consent, storeOps,
                   nextId, cbReg, count, writeFailures, thrown>>

\* (mutation: line 76 empties the array and keeps the entry)
grantConsentReturnEmpties ==
    /\ stack # <<>>
    /\ Top.kind = "drain"
    /\ Top.i > Len(Top.arr)
    /\ listeners' = IF HasOwn(listeners, Top.t)
                    THEN [listeners EXCEPT !.own[Top.t] = <<>>]
                    ELSE listeners
    /\ stack' = Pop(stack)
    /\ UNCHANGED <<localStorageAvailable, blob, consent, storeOps,
                   nextId, cbReg, count, writeFailures, thrown>>

\* (mutation: line 76 is missing)
grantConsentReturnKeeps ==
    /\ stack # <<>>
    /\ Top.kind = "drain"
    /\ Top.i > Len(Top.arr)
    /\ listeners' = listeners
    /\ stack' = Pop(stack)
    /\ UNCHANGED <<localStorageAvailable, blob, consent, storeOps,
                   nextId, cbReg, count, writeFailures, thrown>>

\* forEach is through: line 76, and grantConsent returns
grantConsentReturn ==
    /\ stack # <<>>
    /\ Top.kind = "drain"
    /\ Top.i > Len(Top.arr)
    /\ listeners' = DeleteProp(listeners, Top.t)
    /\ stack' = Pop(stack)
    /\ UNCHANGED <<localStorageAvailable, blob, consent, storeOps,
                   nextId, cbReg, count, writeFailures, thrown>>

\* revokeConsent (lines 85-87)
revokeConsent(arg) ==
    /\ CanCall
    /\ \E writeOk \in WriteOutcomes :
        LET t == Resolve(arg)
            r == alterConsent(consent, blob, localStorageAvailable, Revoked, t, writeOk)
        IN  /\ consent' = r.consent
            /\ blob' = r.blob
            /\ storeOps' = (storeOps \/ r.storeOps)
            /\ IF r.threw # "no"
               THEN Raise(Mark(stack, t), r.threw)
               ELSE stack' = Mark(stack, t) /\ UNCHANGED <<writeFailures, thrown>>
    /\ UNCHANGED <<localStorageAvailable, listeners, nextId, cbReg, count>>

\* hasConsent (lines 96-103) called by the page or a callback
hasConsent(arg) ==
    /\ CanCall
    /\ IF Throws(consent)
       THEN Raise(stack, "type") /\ UNCHANGED consent
       ELSE /\ consent' = HasConsentEffect(consent, Resolve(arg))
            /\ UNCHANGED <<stack, writeFailures, thrown>>
    /\ UNCHANGED <<localStorageAvailable, blob, listeners, storeOps,
                   nextId, cbReg, count>>

\* offeredConsent (lines 112-121) called by the page or a callback
offeredConsent(arg) ==
    /\ CanCall
    /\ IF Throws(consent)
       THEN Raise(stack, "type") /\ UNCHANGED consent
       ELSE /\ consent' = OfferedConsentEffect(consent, Resolve(arg))
            /\ UNCHANGED <<stack, writeFailures, thrown>>
    /\ UNCHANGED <<localStorageAvailable, blob, listeners, storeOps,
                   nextId, cbReg, count>>

\* waitForConsent (lines 130-133) with a new function as callback
waitForConsent(arg) ==
    /\ CanCall
    /\ nextId < MaxCb
    /\ LET id == nextId + 1
           t == Resolve(arg)
       IN  /\ consent' = IF Throws(consent) THEN consent ELSE HasConsentEffect(consent, t)
           /\ nextId' = id
           /\ IF Throws(consent)
              THEN /\ Raise(stack, "type")
                   /\ cbReg' = [cbReg EXCEPT ![id] = "failed"]
                   /\ UNCHANGED <<listeners, count>>
              ELSE IF HasConsentVal(consent, t)
              THEN /\ Len(stack) + 1 <= MaxDepth
                   /\ stack' = Append(stack, Frame("cb", t, id, <<>>, 0, IsGranted(consent, t)))
                   /\ count' = [count EXCEPT ![id] = Inc(count[id])]
                   /\ cbReg' = [cbReg EXCEPT ![id] = "immediate"]
                   /\ UNCHANGED <<listeners, writeFailures, thrown>>
              ELSE IF HasOwn(listeners, t)
              THEN /\ listeners' = [listeners EXCEPT !.own[t] = Append(listeners.own[t], id)]
                   /\ cbReg' = [cbReg EXCEPT ![id] = t]
                   /\ UNCHANGED <<stack, count, writeFailures, thrown>>
              ELSE IF Truthy(listeners, t)
              THEN \* Object.prototype has no push
                   /\ Raise(stack, "type")
                   /\ cbReg' = [cbReg EXCEPT ![id] = "failed"]
                   /\ UNCHANGED <<listeners, count>>
              ELSE /\ listeners' = [listeners EXCEPT !.own = MapSet(listeners.own, t, <<id>>)]
                   /\ cbReg' = [cbReg EXCEPT ![id] = t]
                   /\ UNCHANGED <<stack, count, writeFailures, thrown>>
    /\ UNCHANGED <<localStorageAvailable, blob, storeOps>>

(* ---- callbacks and the page ---- *)
\* the running callback returns
callbackReturn ==
    /\ stack # <<>>
    /\ Top.kind = "cb"
    /\ stack' = Pop(stack)
    /\ UNCHANGED <<localStorageAvailable, blob, consent, listeners, storeOps,
                   nextId, cbReg, count, writeFailures, thrown>>

\* the running callback throws: forEach and grantConsent catch nothing
callbackThrow ==
    /\ stack # <<>>
    /\ Top.kind = "cb"
    /\ Raise(Pop(stack), "callback")
    /\ UNCHANGED <<localStorageAvailable, blob, consent, listeners, storeOps,
                   nextId, cbReg, count>>

\* the page is loaded again: the module is evaluated with the store as it is
reload ==
    /\ stack = <<>>
    /\ \E available \in BOOLEAN : Loaded(blob, available)

Next ==
    \/ \E arg \in Args : grantConsent(arg)
    \/ forEachCall
    \/ grantConsentReturn
    \/ \E arg \in Args : revokeConsent(arg)
    \/ \E arg \in Args : hasConsent(arg)
    \/ \E arg \in Args : offeredConsent(arg)
    \/ \E arg \in Args : waitForConsent(arg)
    \/ callbackReturn
    \/ callbackThrow
    \/ reload

Spec == Init /\ [][Next]_vars


(* ---- what the callers observe ---- *)
\* hasConsent(t) / offeredConsent(t) would return true, or false
HasTrue(c, t) == ~Throws(c) /\ HasConsentVal(c, t)
HasFalse(c, t) == ~Throws(c) /\ ~HasConsentVal(c, t)
OfferedTrue(c, t) == ~Throws(c) /\ OfferedConsentVal(c, t)
OfferedFalse(c, t) == ~Throws(c) /\ ~OfferedConsentVal(c, t)
\* what the two queries give: an exception, or the two results
Answers(c, t) ==
    IF Throws(c) THEN <<"TypeError">>
    ELSE <<HasConsentVal(c, t), OfferedConsentVal(c, t)>>

\* the step is a call of grantConsent / revokeConsent for cookie type t
GrantCall(t) == \E arg \in Args : Resolve(arg) = t /\ grantConsent(arg)
RevokeCall(t) == \E arg \in Args : Resolve(arg) = t /\ revokeConsent(arg)
\* the step is a call of grantConsent(t) that returns at once (nothing pending)
GrantReturnsAtOnce(t) ==
    /\ ~Throws(consent)
    /\ ~Truthy(listeners, t)
    /\ writeFailures' = writeFailures
    /\ stack' = stack
    /\ GrantCall(t)
\* the step is the return of a grantConsent(t) that has drained its array
GrantReturnsAfterDrain(t) == grantConsentReturn /\ Top.t = t
\* the step is a call of revokeConsent(t) that returns
RevokeReturns(t) ==
    /\ ~Throws(consent)
    /\ writeFailures' = writeFailures
    /\ RevokeCall(t)
\* the step belongs to the code of grantConsent(t) itself
GrantStep(t) ==
    \/ forEachCall /\ Top.t = t
    \/ grantConsentReturn /\ Top.t = t
    \/ GrantCall(t)

(* ---- C1 ---- *)
\* C1: every callback is invoked with consent for its cookie type Granted:
\* each callback frame on the stack was entered while consent[t] was 1.
CallbackOnlyWithConsent ==
    \A k \in 1..Len(stack) : stack[k].kind = "cb" => stack[k].g

(* ---- C2 ---- *)
\* C2: the callbacks pending for t when grantConsent(t) is called run exactly
\* once each, in registration order, during that call, and no later
\* grantConsent(t) runs them again: forEach always finds the callbacks before
\* its position invoked once and the others not yet invoked, and when
\* grantConsent returns each callback of the array has been invoked once.
PendingRunOnceInOrder ==
    [][ /\ forEachCall =>
            \A j \in 1..Len(Top.arr) :
                count[Top.arr[j]] = (IF j < Top.i THEN 1 ELSE 0)
        /\ grantConsentReturn =>
            \A j \in 1..Len(Top.arr) : count[Top.arr[j]] = 1 ]_vars

(* ---- C3 ---- *)
\* C3: waitForConsent(D, t) with consent[t] Granted invokes D at once, inside
\* the call, and leaves the registry alone; D is never invoked again.
ImmediateCallback ==
    /\ [][ \A arg \in Args :
             (waitForConsent(arg) /\ IsGranted(consent, Resolve(arg))) =>
                 /\ listeners' = listeners
                 /\ Len(stack') = Len(stack) + 1
                 /\ stack'[Len(stack')].kind = "cb"
                 /\ stack'[Len(stack')].id = nextId + 1
                 /\ count[nextId + 1] = 0
                 /\ count'[nextId + 1] = 1 ]_vars
    /\ [](\A id \in CbIds : cbReg[id] = "immediate" => count[id] = 1)

\* a callback runs inside waitForConsent and is in no array of the registry
ImmediateCallbackWitness ==
    /\ stack # <<>>
    /\ Top.kind = "cb"
    /\ cbReg[Top.id] = "immediate"
    /\ count[Top.id] = 1
    /\ \A t \in DOMAIN listeners.own :
          \A j \in 1..Len(listeners.own[t]) : listeners.own[t][j] # Top.id


(* ---- C4 ---- *)
\* hasConsent(t) and offeredConsent(t) both return true
Yes(c, t) == HasTrue(c, t) /\ OfferedTrue(c, t)
\* once they do, they do until the next revokeConsent(t) of this page load:
\* a step that ends it is a call of revokeConsent(t) or a page load
YesUntilRevoke ==
    \A t \in CookieTypes :
        (Yes(consent, t) /\ ~Yes(consent', t)) => (RevokeCall(t) \/ reload)

\* C4 as stated: when grantConsent(t) returns, and from then until the next
\* revokeConsent(t), hasConsent(t) and offeredConsent(t) return true.
GrantThenConsent ==
    [][ /\ \A t \in CookieTypes :
              ~Yes(consent', t) => ~(GrantReturnsAfterDrain(t) \/ GrantReturnsAtOnce(t))
        /\ YesUntilRevoke ]_vars

\* C4 amended: the same when no revokeConsent(t) was called while that
\* grantConsent(t) was running (by a callback it invoked).
GrantThenConsentUnlessRevokedInside ==
    [][ /\ \A t \in CookieTypes :
              ~Yes(consent', t) =>
                  ~((GrantReturnsAfterDrain(t) /\ Top.g) \/ GrantReturnsAtOnce(t))
        /\ YesUntilRevoke ]_vars

\* a grantConsent(t) that invoked callbacks, none of which called
\* revokeConsent(t), is about to return and t is Granted
GrantThenConsentWitness ==
    /\ stack # <<>>
    /\ Top.kind = "drain"
    /\ Top.i > Len(Top.arr)
    /\ Top.g
    /\ Yes(consent, Top.t)
    /\ \A j \in 1..Len(Top.arr) : count[Top.arr[j]] = 1

(* ---- C5 ---- *)
\* hasConsent(t) returns false and offeredConsent(t) returns true
No(c, t) == HasFalse(c, t) /\ OfferedTrue(c, t)

\* C5: when revokeConsent(t) returns, and from then until the next
\* grantConsent(t), hasConsent(t) returns false and offeredConsent(t) true.
RevokeThenResponse ==
    [][ \A t \in CookieTypes :
          /\ ~No(consent', t) => ~RevokeReturns(t)
          /\ (No(consent, t) /\ ~No(consent', t)) => (GrantCall(t) \/ reload) ]_vars

(* ---- C6 ---- *)
\* hasConsent(t) and offeredConsent(t) both return false
Unset(c, t) == HasFalse(c, t) /\ OfferedFalse(c, t)
\* the keys of the object a page load reads from the store
LoadedKeys(text, available) ==
    IF available /\ text.kind = "object"
    THEN {text.pairs[i][1] : i \in 1..Len(text.pairs)}
    ELSE {}

\* C6: a cookie type that is no key of the loaded text answers false to both
\* queries after the load, and keeps doing so until it is passed to
\* grantConsent or revokeConsent.
UnsetIsNoResponse ==
    [][ \A t \in CookieTypes :
          /\ (~Unset(consent', t) /\ t \notin LoadedKeys(blob, localStorageAvailable'))
                => ~reload
          /\ (Unset(consent, t) /\ ~Unset(consent', t))
                => (GrantCall(t) \/ RevokeCall(t) \/ reload) ]_vars

(* ---- C7 ---- *)
\* nothing of cookie type b changes in the step
SameFor(b) ==
    /\ HasOwn(consent', b) = HasOwn(consent, b)
    /\ HasOwn(consent, b) => consent'.own[b] = consent.own[b]
    /\ Answers(consent', b) = Answers(consent, b)
    /\ HasOwn(listeners', b) = HasOwn(listeners, b)
    /\ HasOwn(listeners, b) => listeners'.own[b] = listeners.own[b]
    /\ \A id \in CbIds : cbReg[id] = b => count'[id] = count[id]

\* C7: the steps of grantConsent(a) and revokeConsent(a) leave the value, the
\* answers and the pending callbacks of every other cookie type as they are
\* and invoke no callback registered for another type.
OtherTypesUntouched ==
    [][ \A b \in CookieTypes :
          ~SameFor(b) => \A a \in CookieTypes \ {b} : ~(GrantStep(a) \/ RevokeCall(a)) ]_vars

\* grantConsent(a) has run the callback pending for a, while b is still
\* unanswered with its callback pending and not invoked
OtherTypesUntouchedWitness ==
    \E a \in CookieTypes : \E b \in CookieTypes \ {a} :
        /\ stack = <<>>
        /\ IsGranted(consent, a)
        /\ ~HasOwn(listeners, a)
        /\ ~HasOwn(consent, b)
        /\ HasOwn(listeners, b)
        /\ \E i, j \in CbIds :
              /\ cbReg[i] = a /\ count[i] = 1
              /\ cbReg[j] = b /\ count[j] = 0

(* ---- C8 ---- *)
\* C8: with the store available and no write failed, a page load finds for
\* every cookie type the answers the page gave just before.
ChoicesSurviveReload ==
    [][ (localStorageAvailable /\ localStorageAvailable' /\ writeFailures = 0 /\ reload)
          => \A t \in CookieTypes : Answers(consent', t) = Answers(consent, t) ]_vars

(* ---- C9 ---- *)
\* the stored text is there but is no JSON object
NotAMapping(text) == text.kind \notin {"absent", "object"}

\* C9: a page load that finds such a text removes it and starts from the
\* empty object.
CorruptBlobIsReset ==
    [][ (localStorageAvailable' /\ NotAMapping(blob) /\ reload)
          => (blob' = Absent /\ consent' = EmptyObject) ]_vars

(* ---- C10 ---- *)
\* alterConsent does to the memory what it does with the store available
\* and the write succeeding
MemoryAsWithStore ==
    \A value \in {Revoked, Granted} : \A t \in CookieTypes :
        LET down == alterConsent(consent, blob, FALSE, value, t, TRUE)
            up == alterConsent(consent, Stringify(consent), TRUE, value, t, TRUE)
        IN  down.consent = up.consent /\ down.threw = up.threw

\* C10: when the probe failed the flag stays false until the next page
\* load, the page starts from the empty object, the store is never used and
\* keeps its text, and the operations change the memory as they do with a
\* working store.
PersistenceDown ==
    /\ [][ /\ ~localStorageAvailable' => (blob' = blob /\ ~storeOps')
           /\ (~localStorageAvailable /\ localStorageAvailable') => reload
           /\ (~localStorageAvailable' /\ reload)
                 => (consent' = EmptyObject /\ listeners' = EmptyObject) ]_vars
    /\ [](~localStorageAvailable => MemoryAsWithStore)

\* without the store: a consent was granted and a callback run, the stored
\* text of an earlier page load is still there
PersistenceDownWitness ==
    /\ ~localStorageAvailable
    /\ ~storeOps
    /\ blob # Absent
    /\ blob # Stringify(consent)
    /\ \E t \in CookieTypes : IsGranted(consent, t)
    /\ \E id \in CbIds : count[id] = 1 /\ cbReg[id] \in CookieTypes

(* ---- C11 ---- *)
\* the callbacks in the array of cookie type t have all been invoked
AllInvoked(t) ==
    HasOwn(listeners, t) =>
        \A j \in 1..Len(listeners.own[t]) : count'[listeners.own[t][j]] >= 1

\* C11: when the write of a grantConsent(t) or revokeConsent(t) fails, then
\* after the call the value of t in memory is the new one, and for
\* grantConsent every callback pending for t has been invoked and the array
\* of t is gone from the registry.
WriteFailureBlocksNothing ==
    [][ writeFailures' > writeFailures =>
          \A t \in CookieTypes :
              /\ GrantCall(t) => /\ IsGranted(consent', t)
                                 /\ AllInvoked(t)
                                 /\ ~HasOwn(listeners', t)
              /\ RevokeCall(t) => /\ HasOwn(consent', t)
                                  /\ consent'.own[t] = Revoked ]_vars

(* ---- C12 ---- *)
\* the step changes no array of the registry and invokes no callback
NothingFired ==
    /\ listeners' = listeners
    /\ count' = count
    /\ Len(stack') <= Len(stack)

\* C12: revokeConsent(t) invokes no callback and leaves the registry as it
\* is, and the callbacks pending for t when it is called are invoked by the
\* next grantConsent(t): a callback that has not run yet is not invoked by a
\* grantConsent(t) during which revokeConsent(t) has been called.
RevokeLeavesRegistry ==
    [][ /\ ~NothingFired => \A t \in CookieTypes : ~RevokeCall(t)
        /\ forEachCall => (count[Top.arr[Top.i]] = 0 => Top.g) ]_vars

(* ---- C13 ---- *)
\* consent[k] is there and is neither 0 nor 1
CorruptEntry(c, k) == HasOwn(c, k) /\ c.own[k] \notin {Revoked, Granted}
\* the own properties other than k are the same in c and d
SameButFor(c, d, k) ==
    \A b \in CookieTypes \ {k} :
        /\ HasOwn(d, b) = HasOwn(c, b)
        /\ HasOwn(c, b) => d.own[b] = c.own[b]

\* C13: hasConsent(k) and offeredConsent(k) on a corrupted entry k return
\* false, delete consent[k], raise no error and leave the other entries,
\* valid or corrupted, as they are.
CorruptEntryIsDropped ==
    [][ \A arg \in Args :
          \/ ~CorruptEntry(consent, Resolve(arg))
          \/ /\ ~HasOwn(consent', Resolve(arg))
             /\ SameButFor(consent, consent', Resolve(arg))
             /\ stack' = stack
             /\ thrown' = thrown
             /\ ~HasConsentVal(consent, Resolve(arg))
             /\ ~OfferedConsentVal(consent, Resolve(arg))
          \/ ~(hasConsent(arg) \/ offeredConsent(arg)) ]_vars

\* of the two corrupted entries that were loaded one has been deleted by a
\* query, the other is still there, and the stored text still has both
CorruptEntryIsDroppedWitness ==
    /\ localStorageAvailable
    /\ blob = Text("object", << <<"default", Corrupt>>, <<"ads", Corrupt>> >>, <<>>)
    /\ ~HasOwn(consent, "default")
    /\ CorruptEntry(consent, "ads")
    /\ nextId = 0

(* ---- C14 ---- *)
\* what a call of hasConsent(t) or offeredConsent(t) may do in a step
QueryFrame(t) ==
    /\ blob' = blob
    /\ storeOps' = storeOps
    /\ listeners' = listeners
    /\ count' = count
    /\ \A b \in CookieTypes :
          ValidEntry(consent, b) => (HasOwn(consent', b) /\ consent'.own[b] = consent.own[b])
    /\ \/ consent' = consent
       \/ ~ValidEntry(consent, t) /\ consent' = DeleteProp(consent, t)
\* a second call of either query gives the same result and changes nothing
QueryAgain(t) ==
    /\ Answers(consent', t) = Answers(consent, t)
    /\ ~Throws(consent') => /\ HasConsentEffect(consent', t) = consent'
                            /\ OfferedConsentEffect(consent', t) = consent'

\* C14: hasConsent and offeredConsent never touch the store, the registry
\* or a valid entry; they can only delete the corrupted or absent key they
\* were asked about, and a second call returns the same and changes nothing.
QueriesOnlyRepair ==
    [][ \A arg \in Args :
          \/ QueryFrame(Resolve(arg)) /\ QueryAgain(Resolve(arg))
          \/ ~(hasConsent(arg) \/ offeredConsent(arg)) ]_vars

\* a query has deleted the corrupted entry of "ads" from memory: the valid
\* entry of "default" is still there, and the store still holds both
QueriesOnlyRepairWitness ==
    /\ localStorageAvailable
    /\ blob = Text("object", << <<"default", Revoked>>, <<"ads", Corrupt>> >>, <<>>)
    /\ consent = JsValue("object", [k \in {"default"} |-> Revoked], <<>>)
    /\ nextId = 0

(* ---- C15 ---- *)
\* callback id is in an array of the registry
Pending(l, id) ==
    \E t \in DOMAIN l.own : \E j \in 1..Len(l.own[t]) : l.own[t][j] = id

\* C15: a callback that waitForConsent appended to an array of the registry
\* leaves the registry, during one page load, only after it has been invoked.
NoCallbackLost ==
    [][ \A id \in CbIds :
          (Pending(listeners, id) /\ ~Pending(listeners', id))
              => (count'[id] >= 1 \/ reload) ]_vars

(* ---- C16 ---- *)
\* C16: no callback handed to waitForConsent is invoked more than once.
NoCallbackTwice == \A id \in CbIds : count[id] <= 1

(* ---- C17 ---- *)
\* a grantConsent(t) is running below the innermost frame
Nested(t) ==
    \E k \in 1..(Len(stack) - 1) : stack[k].kind = "drain" /\ stack[k].t = t

\* C17: after a callback has failed, a later grantConsent(t), one that is
\* not called from within a running grantConsent(t), does not start its
\* forEach by invoking a callback that has already run.
NoRerunAfterThrow ==
    [][ (thrown /\ forEachCall /\ Top.i = 1 /\ ~Nested(Top.t))
          => count[Top.arr[1]] = 0 ]_vars

(* ---- C18 ---- *)
\* C18: with the store available, when alterConsent has written, the stored
\* text reads back as the whole consent object: every own key with its
\* value, touched by the call or not, valid or not, and no other key.
WrittenTextIsWholeMap ==
    [][ (localStorageAvailable /\ writeFailures' = writeFailures /\ ~Throws(consent))
          => \/ ParseValue(blob') = consent'
             \/ \A t \in CookieTypes : ~(GrantCall(t) \/ RevokeCall(t)) ]_vars

(* ---- C19 ---- *)
\* no array of the registry is empty
NoEmptyList == \A t \in DOMAIN listeners.own : Len(listeners.own[t]) >= 1
\* the step is a waitForConsent for type t that does not call the callback
WaitDefers(t) ==
    /\ ~HasTrue(consent, t)
    /\ \E arg \in Args : Resolve(arg) = t /\ waitForConsent(arg)

\* C19: the registry never holds an empty array; the entry of a type is
\* made, with one callback, by a waitForConsent on that type that defers,
\* and goes when a grantConsent on that type has finished its forEach.
RegistryEntries ==
    /\ []NoEmptyList
    /\ [][ \A t \in CookieTypes :
             /\ (~HasOwn(listeners, t) /\ HasOwn(listeners', t))
                   => (Len(listeners'.own[t]) = 1 /\ WaitDefers(t))
             /\ (HasOwn(listeners, t) /\ ~HasOwn(listeners', t))
                   => (GrantReturnsAfterDrain(t) \/ reload) ]_vars

\* the entry of "default" was made, drained and deleted, the entry of
\* "ads" is there with its one pending callback
RegistryEntriesWitness ==
    /\ stack = <<>>
    /\ cbReg[1] = "default"
    /\ count[1] = 1
    /\ ~HasOwn(listeners, "default")
    /\ HasOwn(listeners, "ads")
    /\ listeners.own["ads"] = <<2>>
    /\ count[2] = 0

(* ---- C20 ---- *)
\* C20: between the calls of the page, when no callback and no write has
\* failed, a cookie type whose value is 1 has no entry in the registry.
GrantedHasNoEntry ==
    (stack = <<>> /\ ~thrown /\ writeFailures = 0)
        => \A t \in CookieTypes : IsGranted(consent, t) => ~HasOwn(listeners, t)

\* back at the page after a grantConsent(t) whose callbacks called
\* waitForConsent and grantConsent on t themselves: the first callback ran
\* twice, the second was registered for t and ran, t is granted
GrantedHasNoEntryWitness ==
    /\ stack = <<>>
    /\ ~thrown
    /\ writeFailures = 0
    /\ \E t \in CookieTypes :
          /\ IsGranted(consent, t)
          /\ ~HasOwn(listeners, t)
          /\ cbReg[1] = t /\ count[1] = 2
          /\ cbReg[2] = t /\ count[2] = 1

====
